---- MODULE Spec2Model ----
(***************************************************************************)
(* PhotoCull: the interactive viewport controller (MainPreview.tsx) and the *)
(* part of the zustand store it reads and writes.                           *)
(*                                                                          *)
(* One action is one browser event (pointer, key, click, timer, promise     *)
(* settlement) together with the React render and the effects that render   *)
(* runs: an effect re-runs exactly when one of its dependencies differs     *)
(* from the previous render, its cleanup first, and its closure keeps the   *)
(* values of the render that created it.                                    *)
(*                                                                          *)
(* Times are milliseconds.  Object URLs are named by the number of the      *)
(* request whose bytes they hold; 0 is null.                                *)
(***************************************************************************)
EXTENDS Integers, Sequences, FiniteSets, TLC

\* ------------------------------------------------------------------ bounds
MaxRequests == 4      \* preview-effect runs explored
NumFiles == 2         \* files of the opened folder
MaxBefore == 4        \* before-effect requests explored
MaxDrags == 2         \* crop-tool drags explored
MaxPan == 200         \* largest pan offset explored, in px
MaxWheel == 2         \* wheel steps explored
MaxApply == 2         \* clicks on Apply explored

\* --------------------------------------------------------------- constants
DEBOUNCE_MS == 150
NoFile == 0
NullUrl == 0
NoTimer == -1
Null == << >>
Some(v) == << v >>

\* Lengths and positions are in units of 1/144 px, so that width / ratio is
\* exact for every entry of ASPECT_RATIOS.  zoomLevel is in millionths, so
\* that a few wheel steps of x1.1 and x0.9 are exact.
\* splitPosition is the percentage times the width of the container.
PX == 144
ZOOM_ONE == 1000000
ContainerRect ==
  [left |-> 0, top |-> 0, width |-> 800 * PX, height |-> 600 * PX]

VARIABLES
  \* store (zustand)
  files, selectedIndex, editStates, previewUrl, cropMode, error,
  \* MainPreview: preview effect
  requestIdRef, localLoading, closures, timer, liveUrls,
  \* history of the preview effect
  burst, clock,
  \* MainPreview: compare mode
  compareMode, beforeUrl, splitPosition, isDraggingSplit, showBefore,
  beforeClosures, liveBefore, beforeIssued,
  \* the keyboard: Space is physically down
  spaceDown,
  \* MainPreview: viewport
  zoomLevel, panOffset, isPanning, lastPanPos,
  \* MainPreview: crop tool
  aspectRatio, cropRect, isDraggingCrop, cropStart, cropDragMode,
  cropDragOffset,
  \* the number of drags started in crop mode
  cropDrags,
  \* the number of clicks on Apply
  applyClicks,
  \* the number of wheel events handled
  wheelSteps,
  \* EditPanel: the pending debounced save; the backend: the edit state
  \* last written by save_edits for each file
  saveTimeout, persisted

storeVars == <<files, selectedIndex, editStates, previewUrl, cropMode,
               error>>
schedVars == <<requestIdRef, localLoading, closures, timer, liveUrls>>
histVars == <<burst, clock>>
beforeVars == <<beforeUrl, beforeClosures, liveBefore, beforeIssued>>
compareVars == <<compareMode, splitPosition, isDraggingSplit, showBefore,
                 spaceDown>>
viewVars == <<zoomLevel, panOffset, isPanning, lastPanPos, wheelSteps>>
cropVars == <<aspectRatio, cropRect, isDraggingCrop, cropStart, cropDragMode,
              cropDragOffset, cropDrags,
                 applyClicks>>
saveVars == <<saveTimeout, persisted>>
vars == <<storeVars, schedVars, histVars, beforeVars, compareVars, viewVars,
          cropVars, saveVars>>

\* ------------------------------------------------------------------- types
FileIds == 1..NumFiles

DEFAULT_EDIT_STATE ==
  [rating |-> 0, flag |-> "none", crop |-> Null, straightenAngle |-> 0,
   rotation |-> 0, exposure |-> 0, contrast |-> 0, highlights |-> 0,
   shadows |-> 0, whiteBalanceTemp |-> 5500, whiteBalanceTint |-> 0,
   saturation |-> 0, vibrance |-> 0, sharpeningAmount |-> 0,
   sharpeningRadius |-> 10, noiseReduction |-> 0]

\* The fields the edit panel and the shortcuts write, each with one value
\* besides its default (sharpeningRadius in tenths).
EditInputs ==
  [exposure |-> {0, 1}, sharpeningRadius |-> {10, 20}]

\* store.selectedFile / store.selectedEditState over explicit arguments
FileAt(fs, idx) == IF idx + 1 \in DOMAIN fs THEN fs[idx + 1] ELSE NoFile
EditsOf(es, f) == IF f = NoFile THEN DEFAULT_EDIT_STATE ELSE es[f]

selectedFile == FileAt(files, selectedIndex)
selectedEditState == EditsOf(editStates, selectedFile)

\* ------------------------------------------------- preview effect (45-85)
\* A closure of the preview effect: phase is where its request stands
\* ("timer", "inflight", "accepted", "failed", "discarded", "cleared"); file,
\* edits and previewUrl are the values of the render that created it; over
\* is the URL on display at the moment its response was dropped.
\* the dependency list of the preview effect
PreviewDeps(f, e) ==
  <<f, e.exposure, e.contrast, e.highlights, e.shadows, e.whiteBalanceTemp,
    e.whiteBalanceTint, e.saturation, e.vibrance, e.sharpeningAmount,
    e.noiseReduction, e.rotation, e.straightenAngle, e.crop>>

\* A closure whose timer was cleared never runs; it keeps no values.
Cleared ==
  [phase |-> "cleared", cancelled |-> TRUE, file |-> NoFile,
   edits |-> DEFAULT_EDIT_STATE, previewUrl |-> NullUrl, over |-> NullUrl]

\* A closure that returned without installing anything: what is kept is the
\* file it was for and the URL on display when its response was dropped.
Dropped(c, phase, shown) ==
  [phase |-> phase, cancelled |-> TRUE, file |-> c.file,
   edits |-> DEFAULT_EDIT_STATE, previewUrl |-> NullUrl, over |-> shown]

\* cleanup: cancelled = true in the closure of the previous run, and
\* clearTimeout of its timer.  Earlier closures are cancelled already, so
\* every closure is marked.
CancelAll(cs) ==
  [i \in DOMAIN cs |-> IF cs[i].phase = "timer" THEN Cleared
                        ELSE [cs[i] EXCEPT !.cancelled = TRUE]]

\* setTimeout(loadPreview, 150) after clearTimeout of the previous handle
RestartTimerKeep(t) == IF t = NoTimer THEN DEBOUNCE_MS ELSE t
RestartTimer(t) == DEBOUNCE_MS

\* The render after an event shows file f2 with edits e2 and store.previewUrl
\* url2; the effect runs if its dependencies changed.
PreviewEffect(f2, e2, url2) ==
  IF PreviewDeps(f2, e2) = PreviewDeps(selectedFile, selectedEditState)
  THEN /\ previewUrl' = url2
       /\ UNCHANGED <<requestIdRef, closures, timer, burst, clock>>
  ELSE IF f2 = NoFile
  THEN /\ previewUrl' = NullUrl
       /\ closures' = CancelAll(closures)
       /\ timer' = NoTimer
       /\ burst' = << >>
       /\ clock' = 0
       /\ UNCHANGED requestIdRef
  ELSE /\ previewUrl' = url2
       /\ requestIdRef' = requestIdRef + 1
       /\ closures' = Append(CancelAll(closures),
                        [phase |-> "timer", cancelled |-> FALSE, file |-> f2,
                         edits |-> e2, previewUrl |-> url2,
                         over |-> NullUrl])
       /\ timer' = RestartTimer(timer)
       /\ burst' = IF timer = NoTimer THEN <<0>> ELSE Append(burst, clock)
       /\ clock' = IF timer = NoTimer THEN 0 ELSE clock

\* currentRequestId === requestIdRef.current and not cancelled
IsCurrentAny(id) == TRUE
IsCurrentNotOlder(id) == id >= previewUrl
IsCurrent(id) == ~closures[id].cancelled /\ id = requestIdRef

\* ------------------------------------------------- before effect (88-117)
\* URL.revokeObjectURL(beforeUrl)
RevokeBeforeNone(live, url) == live
RevokeBeforeNew(live, url) == live \cap {url}
RevokeBefore(live, url) == live \ {url}

\* the cleanup of the before effect: cancelled = true
CancelBefore(cs) == [i \in DOMAIN cs |-> [cs[i] EXCEPT !.cancelled = TRUE]]

\* loadBefore (99): the edit state sent with the request, e being the edit
\* state of the file
BeforeEditsLive(e) == e
BeforeEdits(e) == DEFAULT_EDIT_STATE

\* The render after an event shows file f2 in compare mode m2; the effect
\* runs if [file?.id, compareMode] changed.  loadBefore() calls getPreview at
\* once.  beforeIssued counts the requests since the file last changed.
BeforeEffect(f2, m2) ==
  IF <<f2, m2>> = <<selectedFile, compareMode>>
  THEN UNCHANGED beforeVars
  ELSE IF f2 = NoFile \/ m2 = "off"
  THEN /\ beforeUrl' = NullUrl
       /\ liveBefore' = IF beforeUrl # NullUrl
                        THEN RevokeBefore(liveBefore, beforeUrl)
                        ELSE liveBefore
       /\ beforeClosures' = CancelBefore(beforeClosures)
       /\ beforeIssued' = IF f2 = selectedFile THEN beforeIssued ELSE 0
  ELSE /\ beforeClosures' = Append(CancelBefore(beforeClosures),
                              [phase |-> "inflight", cancelled |-> FALSE,
                               file |-> f2, beforeUrl |-> beforeUrl,
                               edits |-> BeforeEdits(EditsOf(editStates,
                                                             f2))])
       /\ beforeIssued' = IF f2 = selectedFile THEN beforeIssued + 1 ELSE 1
       /\ UNCHANGED <<beforeUrl, liveBefore>>

\* ------------------------------------------------------------ store actions
\* App.handleOpenFolder: setError(null), then store.setFolder
SetFolder(fs) ==
  /\ requestIdRef < MaxRequests
  /\ Len(beforeClosures) < MaxBefore
  /\ files' = fs
  /\ editStates' = [f \in FileIds |-> DEFAULT_EDIT_STATE]
  /\ selectedIndex' = 0
  /\ error' = Null
  /\ PreviewEffect(FileAt(fs, 0), DEFAULT_EDIT_STATE, NullUrl)
  /\ BeforeEffect(FileAt(fs, 0), compareMode)
  /\ UNCHANGED <<cropMode, localLoading, liveUrls, compareVars>>
  /\ UNCHANGED <<viewVars, cropVars>>
  /\ UNCHANGED saveVars

\* App.handleOpenFolder, catch branch: openFolder rejects
OpenFolderFailure ==
  /\ error' = Some("open folder failed")
  /\ UNCHANGED <<files, selectedIndex, editStates, previewUrl, cropMode,
                 schedVars, histVars, beforeVars, compareVars, viewVars,
                 cropVars>>
  /\ UNCHANGED saveVars

\* FilmStrip click (any index) and ArrowLeft / ArrowRight
\* -> store.setSelectedIndex
SetSelectedIndex(idx) ==
  /\ requestIdRef < MaxRequests
  /\ Len(beforeClosures) < MaxBefore
  /\ idx + 1 \in DOMAIN files
  /\ selectedIndex' = idx
  /\ PreviewEffect(FileAt(files, idx), EditsOf(editStates, FileAt(files, idx)),
                   NullUrl)
  /\ BeforeEffect(FileAt(files, idx), compareMode)
  /\ UNCHANGED <<files, editStates, cropMode, error, localLoading, liveUrls,
                 compareVars>>
  /\ UNCHANGED <<viewVars, cropVars>>
  /\ UNCHANGED saveVars

\* store.updateEdit(file.id, {field: v}) and the render after it
UpdateEdit(field, v) ==
  /\ requestIdRef < MaxRequests
  /\ selectedFile # NoFile
  /\ selectedEditState[field] # v
  /\ editStates' = [editStates EXCEPT ![selectedFile][field] = v]
  /\ PreviewEffect(selectedFile, editStates'[selectedFile], previewUrl)
  /\ UNCHANGED <<files, selectedIndex, cropMode, error, localLoading,
                 liveUrls, beforeVars, compareVars>>
  /\ UNCHANGED <<viewVars, cropVars>>

\* ---------------------------------------------------------------- rotation
\* JavaScript's %: the remainder takes the sign of the dividend
JsRem(a, n) == IF a >= 0 THEN a % n ELSE 0 - ((0 - a) % n)

\* useKeyboardShortcuts, case 'r' / 'R': newRotation
KeyRotationNoWrap(r, shiftKey) ==
  IF shiftKey THEN JsRem(r - 90, 360) ELSE JsRem(r + 90, 360)
KeyRotation(r, shiftKey) ==
  IF shiftKey THEN JsRem(JsRem(r - 90, 360) + 360, 360)
  ELSE JsRem(r + 90, 360)

\* saveEdits(fileId, edits): save_edits writes the edit state of the file;
\* the calls are taken to arrive in the order they are made
SaveEdits(f, e) == persisted' = [persisted EXCEPT ![f] = Some(e)]

\* EditPanel.handleChange (421-436): updateEdit, then the save timer is
\* restarted with the snapshot {...edits, [field]: value} of this render
handleChange(field, v) ==
  /\ UpdateEdit(field, v)
  /\ saveTimeout' = Some([file |-> selectedFile,
                          edits |-> [selectedEditState EXCEPT ![field] = v]])
  /\ UNCHANGED persisted

\* the callback of the save timer (427-433), 500 ms after the last change
SaveTimerFire ==
  /\ saveTimeout # Null
  /\ SaveEdits(saveTimeout[1].file, saveTimeout[1].edits)
  /\ saveTimeout' = Null
  /\ UNCHANGED <<storeVars, schedVars, histVars, beforeVars, compareVars,
                 viewVars, cropVars>>

\* key R (shiftKey false) or Shift+R: updateEdit(file.id, {rotation}), then
\* saveEdits(file.id, {...edits, rotation}) at once
RotateKey(shiftKey) ==
  LET newRotation == KeyRotation(selectedEditState.rotation, shiftKey)
  IN /\ UpdateEdit("rotation", newRotation)
     /\ SaveEdits(selectedFile,
                  [selectedEditState EXCEPT !.rotation = newRotation])
     /\ UNCHANGED saveTimeout

\* EditPanel.handleRotateLeft / handleRotateRight -> handleChange
handleRotateLeft ==
  handleChange("rotation", JsRem(selectedEditState.rotation - 90 + 360, 360))
handleRotateRight ==
  handleChange("rotation", JsRem(selectedEditState.rotation + 90, 360))

\* ------------------------------------------------------------------- time
\* d milliseconds pass while the debounce timer is pending
Advance(d) ==
  /\ timer >= d
  /\ d > 0
  /\ timer' = timer - d
  /\ clock' = clock + d
  /\ UNCHANGED <<storeVars, requestIdRef, localLoading, closures, liveUrls,
                 burst, beforeVars, compareVars>>
  /\ UNCHANGED <<viewVars, cropVars>>
  /\ UNCHANGED saveVars

\* time passes until the timer is due
Elapse == Advance(timer)

\* time passes by one of a few durations, at most until the timer is due
TickSteps == {30, 50}
Min(a, b) == IF a < b THEN a ELSE b
Tick == \E d \in TickSteps : Advance(Min(d, timer))

\* the timer callback: loadPreview up to its await
TimerFire ==
  /\ timer = 0
  /\ timer' = NoTimer
  /\ localLoading' = TRUE
  /\ closures' = [closures EXCEPT ![requestIdRef].phase = "inflight"]
  /\ burst' = << >>
  /\ clock' = 0
  /\ UNCHANGED <<storeVars, requestIdRef, liveUrls, beforeVars, compareVars>>
  /\ UNCHANGED <<viewVars, cropVars>>
  /\ UNCHANGED saveVars

\* getPreview resolves: loadPreview after its await, try branch and finally
PreviewSuccess(id) ==
  /\ id \in DOMAIN closures
  /\ closures[id].phase = "inflight"
  /\ IF IsCurrent(id)
     THEN /\ closures' = [closures EXCEPT ![id].phase = "accepted"]
          /\ liveUrls' = (liveUrls \cup {id}) \ {closures[id].previewUrl}
          /\ previewUrl' = id
          /\ localLoading' = FALSE
     ELSE /\ closures' = [closures EXCEPT
                            ![id] = Dropped(@, "discarded", previewUrl)]
          /\ UNCHANGED <<liveUrls, previewUrl, localLoading>>
  /\ UNCHANGED <<files, selectedIndex, editStates, cropMode, error,
                 requestIdRef, timer, histVars, beforeVars, compareVars>>
  /\ UNCHANGED <<viewVars, cropVars>>
  /\ UNCHANGED saveVars

\* getPreview rejects: catch branch and finally
PreviewFailureRetry(id) ==
  /\ id \in DOMAIN closures
  /\ closures[id].phase = "inflight"
  /\ IF IsCurrent(id)
     THEN /\ closures' = [closures EXCEPT
                            ![id] = Dropped(@, "failed", NullUrl)]
          /\ previewUrl' = NullUrl
          /\ localLoading' = FALSE
          /\ timer' = DEBOUNCE_MS
     ELSE /\ closures' = [closures EXCEPT
                            ![id] = Dropped(@, "discarded", previewUrl)]
          /\ UNCHANGED <<previewUrl, localLoading, timer>>
  /\ UNCHANGED <<files, selectedIndex, editStates, cropMode, error,
                 requestIdRef, liveUrls, histVars, beforeVars, compareVars>>
  /\ UNCHANGED <<viewVars, cropVars>>
  /\ UNCHANGED saveVars
PreviewFailure(id) ==
  /\ id \in DOMAIN closures
  /\ closures[id].phase = "inflight"
  /\ IF IsCurrent(id)
     THEN /\ closures' = [closures EXCEPT
                            ![id] = Dropped(@, "failed", NullUrl)]
          /\ previewUrl' = NullUrl
          /\ localLoading' = FALSE
     ELSE /\ closures' = [closures EXCEPT
                            ![id] = Dropped(@, "discarded", previewUrl)]
          /\ UNCHANGED <<previewUrl, localLoading>>
  /\ UNCHANGED <<files, selectedIndex, editStates, cropMode, error,
                 requestIdRef, timer, liveUrls, histVars, beforeVars,
                 compareVars>>
  /\ UNCHANGED <<viewVars, cropVars>>
  /\ UNCHANGED saveVars

\* ----------------------------------------------------------- compare mode
\* the compare button (377): off -> split -> toggle -> off; rendered only
\* while a file is selected (339-345)
NextModeBack(m) == IF m = "off" THEN "toggle" ELSE IF m = "split" THEN "off"
                   ELSE "split"
NextMode(m) == IF m = "off" THEN "split" ELSE IF m = "split" THEN "toggle"
               ELSE "off"

CycleCompare ==
  /\ selectedFile # NoFile
  /\ Len(beforeClosures) < MaxBefore
  /\ compareMode' = NextMode(compareMode)
  /\ BeforeEffect(selectedFile, NextMode(compareMode))
  /\ UNCHANGED <<storeVars, schedVars, histVars, splitPosition,
                 isDraggingSplit, showBefore, spaceDown>>
  /\ UNCHANGED <<viewVars, cropVars>>
  /\ UNCHANGED saveVars

\* getPreview(file.id, DEFAULT_EDIT_STATE) resolves: loadBefore after await
BeforeSuccess(id) ==
  /\ id \in DOMAIN beforeClosures
  /\ beforeClosures[id].phase = "inflight"
  /\ IF beforeClosures[id].cancelled
     THEN /\ beforeClosures' = [beforeClosures EXCEPT ![id].phase = "discarded"]
          /\ UNCHANGED <<beforeUrl, liveBefore>>
     ELSE /\ beforeClosures' = [beforeClosures EXCEPT ![id].phase = "accepted"]
          /\ liveBefore' =
               IF beforeClosures[id].beforeUrl # NullUrl
               THEN RevokeBefore(liveBefore \cup {id},
                                 beforeClosures[id].beforeUrl)
               ELSE liveBefore \cup {id}
          /\ beforeUrl' = id
  /\ UNCHANGED <<storeVars, schedVars, histVars, beforeIssued, compareVars>>
  /\ UNCHANGED <<viewVars, cropVars>>
  /\ UNCHANGED saveVars

\* getPreview rejects: the catch only logs
BeforeFailure(id) ==
  /\ id \in DOMAIN beforeClosures
  /\ beforeClosures[id].phase = "inflight"
  /\ beforeClosures' = [beforeClosures EXCEPT ![id].phase = "failed"]
  /\ UNCHANGED <<storeVars, schedVars, histVars, beforeUrl, liveBefore,
                 beforeIssued, compareVars>>
  /\ UNCHANGED <<viewVars, cropVars>>
  /\ UNCHANGED saveVars

\* the window listeners of the toggle-mode effect (120-141) are attached
\* exactly while compareMode is "toggle"
ListenersAttached == compareMode = "toggle"

\* Space goes down, or auto-repeats while it is held (e.repeat)
KeyDown(repeat) ==
  /\ repeat = spaceDown
  /\ spaceDown' = TRUE
  /\ showBefore' = IF ListenersAttached /\ ~repeat THEN TRUE ELSE showBefore
  /\ UNCHANGED <<storeVars, schedVars, histVars, beforeVars, compareMode,
                 splitPosition, isDraggingSplit>>
  /\ UNCHANGED <<viewVars, cropVars>>
  /\ UNCHANGED saveVars

\* Space is released
KeyUp ==
  /\ spaceDown
  /\ spaceDown' = FALSE
  /\ showBefore' = IF ListenersAttached THEN FALSE ELSE showBefore
  /\ UNCHANGED <<storeVars, schedVars, histVars, beforeVars, compareMode,
                 splitPosition, isDraggingSplit>>
  /\ UNCHANGED <<viewVars, cropVars>>
  /\ UNCHANGED saveVars

\* what the render shows (446-514)
BeforeShownInToggle ==
  compareMode = "toggle" /\ showBefore /\ beforeUrl # NullUrl

\* --------------------------------------------------------------- viewport
Max(a, b) == IF a > b THEN a ELSE b

\* the zoom buttons (351-374); rendered only while a file is selected
ZoomOut ==
  /\ selectedFile # NoFile
  /\ zoomLevel' = Max(ZOOM_ONE \div 2, zoomLevel - ZOOM_ONE \div 4)
  /\ UNCHANGED <<storeVars, schedVars, histVars, beforeVars, compareVars,
                 panOffset, isPanning, lastPanPos, wheelSteps, cropVars>>
  /\ UNCHANGED saveVars

ZoomIn ==
  /\ selectedFile # NoFile
  /\ zoomLevel' = Min(5 * ZOOM_ONE, zoomLevel + ZOOM_ONE \div 4)
  /\ UNCHANGED <<storeVars, schedVars, histVars, beforeVars, compareVars,
                 panOffset, isPanning, lastPanPos, wheelSteps, cropVars>>
  /\ UNCHANGED saveVars

ResetZoom ==
  /\ selectedFile # NoFile
  /\ zoomLevel' = ZOOM_ONE
  /\ panOffset' = [x |-> 0, y |-> 0]
  /\ UNCHANGED <<storeVars, schedVars, histVars, beforeVars, compareVars,
                 isPanning, lastPanPos, wheelSteps, cropVars>>
  /\ UNCHANGED saveVars

\* Math.max(0.5, Math.min(5, z))
ClampZoomBelow(z) == Max(ZOOM_ONE \div 2, z)
ClampZoom(z) == Max(ZOOM_ONE \div 2, Min(5 * ZOOM_ONE, z))

\* handleWheel (160-165): deltaY > 0 is a step down (x0.9), else up (x1.1)
Wheel(down) ==
  /\ selectedFile # NoFile
  /\ wheelSteps < MaxWheel
  /\ wheelSteps' = wheelSteps + 1
  /\ zoomLevel' =
       IF cropMode THEN zoomLevel
       ELSE ClampZoom(IF down THEN (zoomLevel * 9) \div 10
                      ELSE (zoomLevel * 11) \div 10)
  /\ UNCHANGED <<storeVars, schedVars, histVars, beforeVars, compareVars,
                 panOffset, isPanning, lastPanPos, cropVars>>
  /\ UNCHANGED saveVars

\* handleDoubleClick (295-300): the zoom level and pan offset it leaves
ToggledViewKeepPan(z, p) ==
  IF z = ZOOM_ONE THEN [zoomLevel |-> 2 * ZOOM_ONE, panOffset |-> p]
  ELSE [zoomLevel |-> ZOOM_ONE, panOffset |-> p]
ToggledView(z, p) ==
  IF z = ZOOM_ONE THEN [zoomLevel |-> 2 * ZOOM_ONE, panOffset |-> p]
  ELSE [zoomLevel |-> ZOOM_ONE, panOffset |-> [x |-> 0, y |-> 0]]

\* handleDoubleClick (293-302)
DoubleClick ==
  /\ selectedFile # NoFile
  /\ IF ~cropMode
     THEN /\ zoomLevel' = ToggledView(zoomLevel, panOffset).zoomLevel
          /\ panOffset' = ToggledView(zoomLevel, panOffset).panOffset
     ELSE UNCHANGED <<zoomLevel, panOffset>>
  /\ UNCHANGED <<storeVars, schedVars, histVars, beforeVars, compareVars,
                 isPanning, lastPanPos, wheelSteps, cropVars>>
  /\ UNCHANGED saveVars

\* -------------------------------------------------------------- crop tool
ASPECT_RATIOS ==
  << [label |-> "Free", value |-> Null],
     [label |-> "1:1", value |-> Some([num |-> 1, den |-> 1])],
     [label |-> "4:3", value |-> Some([num |-> 4, den |-> 3])],
     [label |-> "3:2", value |-> Some([num |-> 3, den |-> 2])],
     [label |-> "16:9", value |-> Some([num |-> 16, den |-> 9])],
     [label |-> "9:16", value |-> Some([num |-> 9, den |-> 16])],
     [label |-> "3:4", value |-> Some([num |-> 3, den |-> 4])],
     [label |-> "2:3", value |-> Some([num |-> 2, den |-> 3])] >>

\* width / aspectRatio
DivRatio(w, r) == (w * r.den) \div r.num

\* aspectRatio ? width / aspectRatio : height
LockedHeightFree(w, h, ar) == h
LockedHeight(w, h, ar) == IF ar # Null THEN DivRatio(w, ar[1]) ELSE h

HandleSize == 15 * PX

\* handleMouseDown (174-207): what a press at (x, y) grabs of rectangle r
HitModeBodyFirst(r, x, y) ==
  IF x >= r.x /\ x <= r.x + r.width /\ y >= r.y /\ y <= r.y + r.height
  THEN "move"
  ELSE "create"
HitMode(r, x, y) ==
  LET inLeft == x >= r.x - HandleSize /\ x <= r.x + HandleSize
      inRight == x >= r.x + r.width - HandleSize
                 /\ x <= r.x + r.width + HandleSize
      inTop == y >= r.y - HandleSize /\ y <= r.y + HandleSize
      inBottom == y >= r.y + r.height - HandleSize
                  /\ y <= r.y + r.height + HandleSize
      inBoxX == x >= r.x /\ x <= r.x + r.width
      inBoxY == y >= r.y /\ y <= r.y + r.height
  IN IF inLeft /\ inTop THEN "resize-nw"
     ELSE IF inRight /\ inTop THEN "resize-ne"
     ELSE IF inLeft /\ inBottom THEN "resize-sw"
     ELSE IF inRight /\ inBottom THEN "resize-se"
     ELSE IF inBoxX /\ inBoxY THEN "move"
     ELSE "create"

\* handleMouseDown (215): zoomLevel > 1
CanPanAlways == TRUE
CanPan == zoomLevel > ZOOM_ONE

\* handleMouseDown (167-219) at container position (x, y)
MouseDown(x, y) ==
  /\ selectedFile # NoFile
  /\ IF cropMode
     THEN LET hit == IF cropRect # Null /\ cropRect[1].width > 0
                        /\ cropRect[1].height > 0
                     THEN HitMode(cropRect[1], x, y) ELSE "create"
          IN /\ cropDrags < MaxDrags
             /\ cropDrags' = cropDrags + 1
             /\ cropDragMode' = hit
             /\ isDraggingCrop' = TRUE
             /\ cropDragOffset' =
                  IF hit = "move"
                  THEN [x |-> x - cropRect[1].x, y |-> y - cropRect[1].y]
                  ELSE cropDragOffset
             /\ cropStart' = IF hit = "create" THEN Some([x |-> x, y |-> y])
                             ELSE cropStart
             /\ cropRect' = IF hit = "create"
                            THEN Some([x |-> x, y |-> y, width |-> 0,
                                       height |-> 0])
                            ELSE cropRect
             /\ UNCHANGED <<isPanning, lastPanPos>>
     ELSE /\ IF CanPan
             THEN isPanning' = TRUE /\ lastPanPos' = [x |-> x, y |-> y]
             ELSE UNCHANGED <<isPanning, lastPanPos>>
          /\ UNCHANGED <<cropRect, isDraggingCrop, cropStart, cropDragMode,
                         cropDragOffset, cropDrags>>
  /\ UNCHANGED <<storeVars, schedVars, histVars, beforeVars, compareVars,
                 zoomLevel, panOffset, wheelSteps, aspectRatio, applyClicks>>
  /\ UNCHANGED saveVars

\* handleMouseMove, create branch (228-241)
CreateRectNoFlip(start, mouseX, mouseY, ar) ==
  [x |-> start.x, y |-> start.y, width |-> mouseX - start.x,
   height |-> LockedHeight(mouseX - start.x, mouseY - start.y, ar)]
CreateRect(start, mouseX, mouseY, ar) ==
  LET w0 == mouseX - start.x
      h0 == mouseY - start.y
      x == IF w0 < 0 THEN start.x + w0 ELSE start.x
      y == IF h0 < 0 THEN start.y + h0 ELSE start.y
      width == IF w0 < 0 THEN -w0 ELSE w0
      height == IF h0 < 0 THEN -h0 ELSE h0
  IN [x |-> x, y |-> y, width |-> width,
      height |-> LockedHeight(width, height, ar)]

\* handleMouseMove, move branch (242-245)
MoveRect(r, off, mouseX, mouseY) ==
  [r EXCEPT
     !.x = Max(0, Min(ContainerRect.width - r.width, mouseX - off.x)),
     !.y = Max(0, Min(ContainerRect.height - r.height, mouseY - off.y))]

\* handleMouseMove, resize branch (246-269)
ResizeRectFollow(r, mode, mouseX, mouseY, ar) ==
  LET west == mode \in {"resize-sw", "resize-nw"}
      north == mode \in {"resize-ne", "resize-nw"}
      w == Max(20 * PX, IF west THEN r.x + r.width - mouseX
                        ELSE mouseX - r.x)
      h == LockedHeight(w, Max(20 * PX, IF north THEN r.y + r.height - mouseY
                                        ELSE mouseY - r.y), ar)
  IN [x |-> IF west THEN mouseX ELSE r.x,
      y |-> IF north THEN mouseY ELSE r.y, width |-> w, height |-> h]
ResizeRect(r, mode, mouseX, mouseY, ar) ==
  IF mode = "resize-se"
  THEN LET w == Max(20 * PX, mouseX - r.x)
       IN [r EXCEPT !.width = w,
                    !.height = LockedHeight(w, Max(20 * PX, mouseY - r.y),
                                            ar)]
  ELSE IF mode = "resize-sw"
  THEN LET w == Max(20 * PX, r.x + r.width - mouseX)
       IN [r EXCEPT !.x = r.x + r.width - w,
                    !.width = w,
                    !.height = LockedHeight(w, Max(20 * PX, mouseY - r.y),
                                            ar)]
  ELSE IF mode = "resize-ne"
  THEN LET w == Max(20 * PX, mouseX - r.x)
           h == LockedHeight(w, Max(20 * PX, r.y + r.height - mouseY), ar)
       IN [r EXCEPT !.width = w, !.y = r.y + r.height - h, !.height = h]
  ELSE IF mode = "resize-nw"
  THEN LET w == Max(20 * PX, r.x + r.width - mouseX)
           h == LockedHeight(w, Max(20 * PX, r.y + r.height - mouseY), ar)
       IN [x |-> r.x + r.width - w, y |-> r.y + r.height - h, width |-> w,
           height |-> h]
  ELSE r

IsResize(mode) ==
  mode \in {"resize-nw", "resize-ne", "resize-sw", "resize-se"}

\* handleSplitMouseMove (148-154): the stored split position
SplitAtUnclamped(x) == x * 100
SplitAt(x) ==
  Max(5 * ContainerRect.width, Min(95 * ContainerRect.width, x * 100))

PanWithin(p) ==
  /\ p.x >= -MaxPan * PX /\ p.x <= MaxPan * PX
  /\ p.y >= -MaxPan * PX /\ p.y <= MaxPan * PX

\* onMouseMove (434): handleMouseMove (221-279) and handleSplitMouseMove
MouseMove(x, y) ==
  /\ selectedFile # NoFile
  /\ IF isDraggingCrop /\ cropMode
     THEN /\ cropRect' =
               IF cropDragMode = "create" /\ cropStart # Null
               THEN Some(CreateRect(cropStart[1], x, y, aspectRatio))
               ELSE IF cropDragMode = "move" /\ cropRect # Null
               THEN Some(MoveRect(cropRect[1], cropDragOffset, x, y))
               ELSE IF IsResize(cropDragMode) /\ cropRect # Null
               THEN Some(ResizeRect(cropRect[1], cropDragMode, x, y,
                                    aspectRatio))
               ELSE cropRect
          /\ UNCHANGED <<panOffset, lastPanPos>>
     ELSE /\ IF isPanning
             THEN /\ panOffset' = [x |-> panOffset.x + (x - lastPanPos.x),
                                   y |-> panOffset.y + (y - lastPanPos.y)]
                  /\ lastPanPos' = [x |-> x, y |-> y]
                  /\ PanWithin(panOffset')
             ELSE UNCHANGED <<panOffset, lastPanPos>>
          /\ UNCHANGED cropRect
  /\ splitPosition' = IF isDraggingSplit THEN SplitAt(x) ELSE splitPosition
  /\ UNCHANGED <<storeVars, schedVars, histVars, beforeVars, compareMode,
                 isDraggingSplit, showBefore, spaceDown, zoomLevel, isPanning,
                 wheelSteps, aspectRatio, isDraggingCrop, cropStart,
                 cropDragMode, cropDragOffset, cropDrags,
                 applyClicks>>
  /\ UNCHANGED saveVars

\* handleMouseUp (283): cropRect.width > 10 && cropRect.height > 10
KeepsRectWidthOnly(r) == r.width > 10 * PX
KeepsRect(r) == r.width > 10 * PX /\ r.height > 10 * PX

\* onMouseUp and onMouseLeave (435-436): handleMouseUp (281-291) and
\* handleSplitMouseUp (156-158)
MouseUp ==
  /\ selectedFile # NoFile
  /\ isPanning' = FALSE
  /\ cropRect' =
       IF isDraggingCrop /\ cropRect # Null /\ KeepsRect(cropRect[1])
       THEN cropRect
       ELSE IF cropDragMode = "create" THEN Null ELSE cropRect
  /\ isDraggingCrop' = FALSE
  /\ cropStart' = Null
  /\ cropDragMode' = "null"
  /\ isDraggingSplit' = FALSE
  /\ UNCHANGED <<storeVars, schedVars, histVars, beforeVars, compareMode,
                 splitPosition, showBefore, spaceDown, zoomLevel, panOffset,
                 lastPanPos, wheelSteps, aspectRatio, cropDragOffset,
                 cropDrags,
                 applyClicks>>
  /\ UNCHANGED saveVars

\* the image element carrying imageRef is rendered (446-514)
ImageRendered == previewUrl # NullUrl /\ ~BeforeShownInToggle

\* handleSplitMouseDown (143-146) on the divider of the split view
SplitMouseDown ==
  /\ selectedFile # NoFile
  /\ compareMode = "split" /\ beforeUrl # NullUrl /\ previewUrl # NullUrl
  /\ isDraggingSplit' = TRUE
  /\ UNCHANGED <<storeVars, schedVars, histVars, beforeVars, compareMode,
                 splitPosition, showBefore, spaceDown, viewVars, cropVars>>
  /\ UNCHANGED saveVars

\* the aspect-ratio buttons (397-409), rendered in crop mode
SetAspectRatio(i) ==
  /\ selectedFile # NoFile
  /\ cropMode
  /\ aspectRatio' = ASPECT_RATIOS[i].value
  /\ UNCHANGED <<storeVars, schedVars, histVars, beforeVars, compareVars,
                 viewVars, cropRect, isDraggingCrop, cropStart, cropDragMode,
                 cropDragOffset, cropDrags,
                 applyClicks>>
  /\ UNCHANGED saveVars

\* applyCrop (304-327), the image element being at g (in px) on screen: the
\* crop written to the store, in 1/144 of an image pixel.  ref names the new
\* object; the effect compares edits.crop by identity.
CropValueNoOffset(r, g, ref) ==
  [x |-> Max(0, (r.x * g.naturalWidth) \div g.width),
   y |-> Max(0, (r.y * g.naturalHeight) \div g.height),
   width |-> (r.width * g.naturalWidth) \div g.width,
   height |-> (r.height * g.naturalHeight) \div g.height,
   ref |-> ref]
CropValue(r, g, ref) ==
  [x |-> Max(0, ((r.x - g.left * PX) * g.naturalWidth) \div g.width),
   y |-> Max(0, ((r.y - g.top * PX) * g.naturalHeight) \div g.height),
   width |-> (r.width * g.naturalWidth) \div g.width,
   height |-> (r.height * g.naturalHeight) \div g.height,
   ref |-> ref]

\* applyCrop's guard (305); a disabled Apply button (413) does not call it
CanCommitNoImage == cropRect # Null /\ selectedFile # NoFile
CanCommit == cropRect # Null /\ ImageRendered /\ selectedFile # NoFile

\* a click on the Apply button (411-417), rendered in crop mode
ApplyCrop(g) ==
  /\ requestIdRef < MaxRequests
  /\ applyClicks < MaxApply
  /\ selectedFile # NoFile
  /\ cropMode
  /\ applyClicks' = applyClicks + 1
  /\ IF CanCommit
     THEN /\ editStates' = [editStates EXCEPT ![selectedFile].crop =
                             Some(CropValue(cropRect[1], g, requestIdRef + 1))]
          /\ cropRect' = Null
          /\ cropMode' = FALSE
          /\ PreviewEffect(selectedFile, editStates'[selectedFile],
                           previewUrl)
     ELSE UNCHANGED <<editStates, cropRect, cropMode, previewUrl,
                      requestIdRef, closures, timer, burst, clock>>
  /\ UNCHANGED <<files, selectedIndex, error, localLoading, liveUrls,
                 beforeVars, compareVars, viewVars, aspectRatio, isDraggingCrop,
                 cropStart, cropDragMode, cropDragOffset, cropDrags>>
  /\ UNCHANGED saveVars

\* cancelCrop (329-332)
CancelCropDropStored ==
  /\ requestIdRef < MaxRequests
  /\ selectedFile # NoFile
  /\ cropMode
  /\ cropRect' = Null
  /\ cropMode' = FALSE
  /\ editStates' = [editStates EXCEPT ![selectedFile].crop = Null]
  /\ PreviewEffect(selectedFile, editStates'[selectedFile], previewUrl)
  /\ UNCHANGED <<files, selectedIndex, error, localLoading, liveUrls,
                 beforeVars, compareVars, viewVars, aspectRatio,
                 isDraggingCrop, cropStart, cropDragMode, cropDragOffset,
                 cropDrags,
                 applyClicks>>
  /\ UNCHANGED saveVars
CancelCrop ==
  /\ selectedFile # NoFile
  /\ cropMode
  /\ cropRect' = Null
  /\ cropMode' = FALSE
  /\ UNCHANGED <<files, selectedIndex, editStates, previewUrl, error,
                 schedVars, histVars, beforeVars, compareVars, viewVars,
                 aspectRatio, isDraggingCrop, cropStart, cropDragMode,
                 cropDragOffset, cropDrags,
                 applyClicks>>
  /\ UNCHANGED saveVars

\* EditPanel: the Crop / Done Cropping button, setCropMode(!cropMode)
ToggleCropMode ==
  /\ selectedFile # NoFile
  /\ cropMode' = ~cropMode
  /\ UNCHANGED <<files, selectedIndex, editStates, previewUrl, error,
                 schedVars, histVars, beforeVars, compareVars, viewVars,
                 cropVars>>
  /\ UNCHANGED saveVars

\* ------------------------------------------------------------------- specs
Init ==
  /\ files = << >>
  /\ selectedIndex = 0
  /\ editStates = [f \in FileIds |-> DEFAULT_EDIT_STATE]
  /\ previewUrl = NullUrl
  /\ cropMode = FALSE
  /\ error = Null
  /\ requestIdRef = 0
  /\ localLoading = FALSE
  /\ closures = << >>
  /\ timer = NoTimer
  /\ liveUrls = {}
  /\ burst = << >>
  /\ clock = 0
  /\ compareMode = "off"
  /\ beforeUrl = NullUrl
  /\ splitPosition = 50 * ContainerRect.width
  /\ zoomLevel = ZOOM_ONE
  /\ panOffset = [x |-> 0, y |-> 0]
  /\ isPanning = FALSE
  /\ lastPanPos = [x |-> 0, y |-> 0]
  /\ aspectRatio = Null
  /\ cropRect = Null
  /\ isDraggingCrop = FALSE
  /\ cropStart = Null
  /\ cropDragMode = "null"
  /\ cropDragOffset = [x |-> 0, y |-> 0]
  /\ cropDrags = 0
  /\ applyClicks = 0
  /\ wheelSteps = 0
  /\ isDraggingSplit = FALSE
  /\ showBefore = FALSE
  /\ beforeClosures = << >>
  /\ liveBefore = {}
  /\ beforeIssued = 0
  /\ spaceDown = FALSE
  /\ saveTimeout = Null
  /\ persisted = [f \in FileIds |-> Null]

Folders == {[i \in 1..0 |-> i], [i \in 1..NumFiles |-> i]}

OpenFolder == \E fs \in Folders : SetFolder(fs)
SelectFile == \E idx \in 0..(NumFiles - 1) : SetSelectedIndex(idx)
Edit == \E field \in DOMAIN EditInputs : \E v \in EditInputs[field] :
          handleChange(field, v)
Succeed == \E id \in 1..MaxRequests : PreviewSuccess(id)
Fail == \E id \in 1..MaxRequests : PreviewFailure(id)

\* the preview scheduler; the clock only jumps to the next deadline
Next ==
  \/ OpenFolder
  \/ SelectFile
  \/ Edit
  \/ Elapse
  \/ TimerFire
  \/ Succeed
  \/ Fail

Spec == Init /\ [][Next]_vars

\* the debounce timer against a clock that advances in small steps
NextTimed ==
  \/ OpenFolder
  \/ Edit
  \/ Tick
  \/ Elapse
  \/ TimerFire
  \/ Succeed

SpecTimed == Init /\ [][NextTimed]_vars

\* compare mode and its before image
BeforeSucceed == \E id \in 1..MaxBefore : BeforeSuccess(id)
BeforeFail == \E id \in 1..MaxBefore : BeforeFailure(id)
PressSpace == \E repeat \in BOOLEAN : KeyDown(repeat)

NextCompare ==
  \/ OpenFolder
  \/ SelectFile
  \/ CycleCompare
  \/ BeforeSucceed
  \/ BeforeFail
  \/ PressSpace
  \/ KeyUp

SpecCompare == Init /\ [][NextCompare]_vars

\* pointer positions in the container, in px
PointerPoints == {<<100, 100>>, <<200, 175>>, <<250, 250>>, <<300, 250>>}

\* the aspect-ratio buttons pressed: Free and 4:3
AspectChoices == {1, 3}

\* where the image element is on screen and its natural size, in px
ImageGeometries ==
  { [left |-> 0, top |-> 0, width |-> 800, height |-> 600,
     naturalWidth |-> 3200, naturalHeight |-> 2400],
    [left |-> 200, top |-> 150, width |-> 400, height |-> 300,
     naturalWidth |-> 1600, naturalHeight |-> 1200] }

PointerDown == \E p \in PointerPoints : MouseDown(p[1] * PX, p[2] * PX)
PointerMove == \E p \in PointerPoints : MouseMove(p[1] * PX, p[2] * PX)
PickAspectRatio == \E i \in AspectChoices : SetAspectRatio(i)
Apply == \E g \in ImageGeometries : ApplyCrop(g)

\* zoom and pan over file changes
NextView ==
  \/ OpenFolder
  \/ SelectFile
  \/ ZoomIn
  \/ ZoomOut
  \/ ResetZoom
  \/ DoubleClick
  \/ PointerDown
  \/ PointerMove
  \/ MouseUp

SpecView == Init /\ [][NextView]_vars

\* the zoom controls, in and out of crop mode
TurnWheel == \E down \in BOOLEAN : Wheel(down)

NextZoom ==
  \/ OpenFolder
  \/ SelectFile
  \/ ToggleCropMode
  \/ ZoomIn
  \/ ZoomOut
  \/ ResetZoom
  \/ DoubleClick
  \/ TurnWheel

SpecZoom == Init /\ [][NextZoom]_vars

\* pointer positions over the split view, in px: near the left edge, the
\* middle, near the right edge
DividerPoints == {<<10, 100>>, <<400, 300>>, <<790, 100>>}

DragOverSplit == \E p \in DividerPoints : MouseMove(p[1] * PX, p[2] * PX)

\* failures: of opening a folder and of rendering a preview
NextError ==
  \/ OpenFolder
  \/ OpenFolderFailure
  \/ SelectFile
  \/ Elapse
  \/ TimerFire
  \/ Succeed
  \/ Fail

SpecError == Init /\ [][NextError]_vars

\* the first folder of the session is opened
OpenFirstFolder == files = << >> /\ OpenFolder

\* the divider of the split view, over one opened folder
NextSplit ==
  \/ OpenFirstFolder
  \/ Elapse
  \/ TimerFire
  \/ Succeed
  \/ CycleCompare
  \/ BeforeSucceed
  \/ SplitMouseDown
  \/ DragOverSplit
  \/ MouseUp

SpecSplit == Init /\ [][NextSplit]_vars

\* the first commit of the session
FirstApply == (\A f \in FileIds : editStates[f].crop = Null) /\ Apply

\* the crop tool over a loaded preview, to the first commit or to cancels
NextCommit ==
  \/ OpenFirstFolder
  \/ Elapse
  \/ TimerFire
  \/ Succeed
  \/ ToggleCropMode
  \/ PointerDown
  \/ PointerMove
  \/ MouseUp
  \/ FirstApply
  \/ CancelCrop

SpecCommit == Init /\ [][NextCommit]_vars

\* the crop tool: drawing, moving and resizing the rectangle, and leaving
\* crop mode without a commit
NextCrop ==
  \/ OpenFolder
  \/ SelectFile
  \/ ToggleCropMode
  \/ PickAspectRatio
  \/ PointerDown
  \/ PointerMove
  \/ MouseUp
  \/ CancelCrop

SpecCrop == Init /\ [][NextCrop]_vars

\* the rotation shortcuts and buttons over the preview scheduler
PressR == RotateKey(FALSE)
PressShiftR == RotateKey(TRUE)

NextRotate ==
  \/ OpenFirstFolder
  \/ SelectFile
  \/ PressR
  \/ PressShiftR
  \/ handleRotateLeft
  \/ handleRotateRight
  \/ Elapse
  \/ TimerFire
  \/ Succeed

SpecRotate == Init /\ [][NextRotate]_vars

\* pointer positions of the crop gestures, in px: the corners, the inside and
\* the outside of the rectangle (100,100)-(300,250), and points 10 and 20 px
\* from (100,100)
GesturePoints ==
  {<<100, 100>>, <<110, 110>>, <<120, 120>>, <<300, 100>>, <<100, 250>>,
   <<300, 250>>, <<200, 175>>, <<450, 175>>}

\* the aspect-ratio buttons pressed between gestures: Free, 4:3 and 9:16
GestureRatios == {1, 3, 6}

\* the button is pressed while it is up
GestureDown ==
  /\ ~isDraggingCrop
  /\ \E p \in GesturePoints : MouseDown(p[1] * PX, p[2] * PX)
GestureMove == \E p \in GesturePoints : MouseMove(p[1] * PX, p[2] * PX)

\* the toolbar and the panel are clicked with the mouse button released
PickRatioIdle ==
  /\ ~isDraggingCrop
  /\ \E i \in GestureRatios : SetAspectRatio(i)
ToggleCropIdle == ~isDraggingCrop /\ ToggleCropMode

\* the gestures of the crop tool, one pointer
NextGesture ==
  \/ OpenFirstFolder
  \/ ToggleCropIdle
  \/ PickRatioIdle
  \/ GestureDown
  \/ GestureMove
  \/ MouseUp

SpecGesture == Init /\ [][NextGesture]_vars

\* pointer positions while panning, in px
PanPoints == {<<100, 100>>, <<200, 175>>, <<300, 250>>}

\* a press with the button up
PanDown ==
  /\ ~isPanning
  /\ ~isDraggingCrop
  /\ \E p \in PanPoints : MouseDown(p[1] * PX, p[2] * PX)
PanMove == \E p \in PanPoints : MouseMove(p[1] * PX, p[2] * PX)

\* panning the zoomed image, in and out of crop mode
NextPan ==
  \/ OpenFirstFolder
  \/ ToggleCropMode
  \/ DoubleClick
  \/ PanDown
  \/ PanMove
  \/ MouseUp

SpecPan == Init /\ [][NextPan]_vars

\* edits while compare mode is on: the before image next to the after image
NextBefore ==
  \/ OpenFirstFolder
  \/ Edit
  \/ CycleCompare
  \/ BeforeSucceed
  \/ BeforeFail

SpecBefore == Init /\ [][NextBefore]_vars

\* edits of one file over the preview scheduler, requests succeeding or
\* failing
NextSupersede ==
  \/ OpenFirstFolder
  \/ Edit
  \/ Elapse
  \/ TimerFire
  \/ Succeed
  \/ Fail

SpecSupersede == Init /\ [][NextSupersede]_vars

\* selections over a renderer that answers every request, and a timer that
\* fires: the browser runs a due timer callback and getPreview settles
NextLive ==
  \/ OpenFirstFolder
  \/ SelectFile
  \/ Elapse
  \/ TimerFire
  \/ Succeed

SpecLive ==
  /\ Init
  /\ [][NextLive]_vars
  /\ WF_vars(Elapse)
  /\ WF_vars(TimerFire)
  /\ WF_vars(Succeed)

\* the after and the before image of one file together: edits, compare
\* modes and the successful answers to both kinds of request
NextUrls ==
  \/ OpenFirstFolder
  \/ Edit
  \/ Elapse
  \/ TimerFire
  \/ Succeed
  \/ CycleCompare
  \/ BeforeSucceed

SpecUrls == Init /\ [][NextUrls]_vars

\* ------------------------------------------------------------- persistence
\* sliders, rotate buttons and rotation keys over two files, and the save
\* timer of the edit panel
NextSave ==
  \/ OpenFirstFolder
  \/ SelectFile
  \/ Edit
  \/ handleRotateLeft
  \/ handleRotateRight
  \/ PressR
  \/ PressShiftR
  \/ SaveTimerFire

SpecSave == Init /\ [][NextSave]_vars

\* ------------------------------------------------------------------ claims
Accepted == {i \in DOMAIN closures : closures[i].phase = "accepted"}
Sent == {i \in DOMAIN closures : closures[i].phase \notin {"timer", "cleared"}}
MaxOf(S) == CHOOSE m \in S : \A n \in S : n <= m
Last(q) == q[Len(q)]

\* C1: the displayed after-image is the one of the highest sequence number
\* accepted so far, and a response is installed only if its sequence number
\* is the latest one (requestIdRef).
C1_DisplayedIsLatestAccepted ==
  /\ [](previewUrl # NullUrl =>
          Accepted # {} /\ previewUrl = MaxOf(Accepted))
  /\ [][previewUrl' # previewUrl /\ previewUrl' # NullUrl =>
          previewUrl' = requestIdRef /\ previewUrl' > previewUrl]_vars

\* a response of a lower number arrived after a higher one was installed,
\* and was dropped
C1_Witness ==
  \E i, j \in DOMAIN closures :
    /\ i < j
    /\ closures[i].phase = "discarded"
    /\ closures[i].over = j
    /\ closures[j].phase = "accepted"
    /\ previewUrl = j

Settles(id) ==
  /\ closures[id].phase = "inflight"
  /\ closures'[id].phase # "inflight"

\* C3: when a request issued for a file other than the selected one
\* completes, the displayed image, the loading flag and the live URLs stay.
C3_StaleFileDiscarded ==
  [][\A id \in DOMAIN closures :
       Settles(id) /\ closures[id].file # selectedFile =>
         UNCHANGED <<previewUrl, localLoading, liveUrls>>]_vars

\* the request of the previously selected file completed while another file
\* was selected and its own request was in flight
C3_Witness ==
  \E i, j \in DOMAIN closures :
    /\ i < j
    /\ closures[i].phase = "discarded"
    /\ closures[i].file # NoFile
    /\ closures[j].file = selectedFile
    /\ closures[i].file # closures[j].file
    /\ closures[j].phase = "inflight"
    /\ localLoading

\* the pipeline-relevant fields of C4
PipelineFields(e) ==
  <<e.crop, e.straightenAngle, e.rotation, e.exposure, e.contrast,
    e.saturation, e.vibrance, e.whiteBalanceTemp, e.whiteBalanceTint,
    e.sharpeningAmount, e.sharpeningRadius>>

\* C4: every change of the selected file or of a pipeline-relevant field
\* restarts the debounce timer, and once the latest request was answered
\* with success the displayed image is rendered from the current edit state
\* of the selected file.
C4_RelevantChangeRestartsTimer ==
  /\ [][selectedFile' # NoFile /\
          (selectedFile' # selectedFile \/
           PipelineFields(selectedEditState') # PipelineFields(selectedEditState))
          => timer' = DEBOUNCE_MS /\ requestIdRef' = requestIdRef + 1]_vars
  /\ [](/\ selectedFile # NoFile
         /\ timer = NoTimer
         /\ requestIdRef > 0
         /\ closures[requestIdRef].phase = "accepted"
         /\ previewUrl # NullUrl
         => /\ closures[previewUrl].file = selectedFile
            /\ PipelineFields(closures[previewUrl].edits)
                 = PipelineFields(selectedEditState))

\* C5: every live after-URL is the displayed one.
C5_AfterSlotSingleLive == liveUrls \subseteq ({previewUrl} \ {NullUrl})

BeforeAccepted ==
  {i \in DOMAIN beforeClosures : beforeClosures[i].phase = "accepted"}

\* C6: every live before-URL is the cached one, and while compare mode is
\* off or no file is selected none is cached and none is live.
C6_BeforeSlotSingleLive ==
  /\ liveBefore \subseteq ({beforeUrl} \ {NullUrl})
  /\ (compareMode = "off" \/ selectedFile = NoFile) =>
       beforeUrl = NullUrl /\ liveBefore = {}

\* a before image was replaced by a later one, which is the only live one
C6_WitnessReplaced ==
  /\ Cardinality(BeforeAccepted) >= 2
  /\ beforeUrl # NullUrl
  /\ liveBefore = {beforeUrl}

\* C7: entering split or toggle while a before image of the selected file is
\* cached issues no request, and re-entering split from off issues none
\* when a before image was already fetched for the file since it was
\* selected.
C7_OneBeforeRequestPerFile ==
  /\ [][/\ compareMode' # compareMode
         /\ compareMode' # "off"
         /\ beforeUrl # NullUrl
         /\ beforeClosures[beforeUrl].file = selectedFile
         => Len(beforeClosures') = Len(beforeClosures)]_vars
  /\ [][/\ compareMode = "off"
         /\ compareMode' = "split"
         /\ selectedFile' = selectedFile
         /\ beforeIssued >= 1
         /\ \E i \in BeforeAccepted : beforeClosures[i].file = selectedFile
         => Len(beforeClosures') = Len(beforeClosures)]_vars

\* C10: the before image is displayed in toggle mode only while Space is
\* down.
C10_BeforeShownOnlyWhileHeld == BeforeShownInToggle => spaceDown

\* C8: a change of the selected file to another file resets the viewport and
\* the compare state to their defaults.
C8_FileChangeResetsView ==
  [][selectedFile' # selectedFile /\ selectedFile' # NoFile =>
       /\ zoomLevel' = ZOOM_ONE
       /\ panOffset' = [x |-> 0, y |-> 0]
       /\ compareMode' = "off"
       /\ splitPosition' = 50 * ContainerRect.width
       /\ showBefore' = FALSE
       /\ beforeUrl' = NullUrl]_vars

\* C9: no crop rectangle outside crop mode, and none after a change of the
\* selected file to another file.
C9_CropRectOnlyInCropMode ==
  /\ [](~cropMode => cropRect = Null)
  /\ [][selectedFile' # selectedFile /\ selectedFile' # NoFile =>
          cropRect' = Null]_vars
\* C11: zoomLevel stays within [0.5, 5].
C11_ZoomWithinRange ==
  zoomLevel >= ZOOM_ONE \div 2 /\ zoomLevel <= 5 * ZOOM_ONE

\* the wheel was turned and the zoom level sits on a limit
C11_Witness ==
  /\ wheelSteps = MaxWheel
  /\ zoomLevel \in {ZOOM_ONE \div 2, 5 * ZOOM_ONE}

\* C12: splitPosition stays within [5, 95] percent and changes only while
\* the divider is being dragged.
C12_SplitWithinRange ==
  /\ [](/\ splitPosition >= 5 * ContainerRect.width
        /\ splitPosition <= 95 * ContainerRect.width)
  /\ [][splitPosition' # splitPosition => isDraggingSplit]_vars

\* the divider was dragged past the left or the right limit
C12_Witness ==
  /\ isDraggingSplit
  /\ splitPosition \in {5 * ContainerRect.width, 95 * ContainerRect.width}

\* C13: while the SE corner is dragged with a locked aspect ratio, every
\* pointer-move leaves height = width / r, and the pointer-up keeps that
\* rectangle.
C13_ResizeSEKeepsRatio ==
  /\ [][/\ isDraggingCrop /\ cropMode /\ cropDragMode = "resize-se"
         /\ aspectRatio # Null
         /\ cropMode' /\ isDraggingCrop' /\ cropDragMode' = "resize-se"
         /\ cropRect' # cropRect
         => /\ cropRect' # Null
            /\ cropRect'[1].height * aspectRatio[1].num
                 = cropRect'[1].width * aspectRatio[1].den]_vars
  /\ [][/\ isDraggingCrop /\ cropDragMode = "resize-se"
         /\ ~isDraggingCrop'
         => cropRect' = cropRect]_vars

\* a 4:3 resize by the SE corner to (250, 250) of a rectangle at (100, 100):
\* 150 px wide, 112.5 px high
C13_Witness ==
  /\ cropMode /\ isDraggingCrop /\ cropDragMode = "resize-se"
  /\ aspectRatio = ASPECT_RATIOS[3].value
  /\ cropRect # Null
  /\ cropRect[1].width = 150 * PX
  /\ 2 * cropRect[1].height = 225 * PX

\* C14: a double-click outside crop mode at zoomLevel 1 gives zoomLevel 2;
\* at any other zoomLevel it gives zoomLevel 1 and panOffset {0,0}.
C14_ToggleZoom ==
  [][DoubleClick /\ ~cropMode =>
       IF zoomLevel = ZOOM_ONE
       THEN zoomLevel' = 2 * ZOOM_ONE
       ELSE zoomLevel' = ZOOM_ONE /\ panOffset' = [x |-> 0, y |-> 0]]_vars

\* zoomed to 2 and panned away from the origin: the next toggle has a pan
\* offset to reset
C14_Witness ==
  /\ selectedFile # NoFile /\ ~cropMode
  /\ zoomLevel = 2 * ZOOM_ONE
  /\ panOffset # [x |-> 0, y |-> 0]

\* the rectangle and the image of Scenario B
ScenarioB_Rect ==
  [x |-> 100 * PX, y |-> 100 * PX, width |-> 200 * PX, height |-> 150 * PX]
ScenarioB_Image ==
  [left |-> 0, top |-> 0, width |-> 800, height |-> 600,
   naturalWidth |-> 3200, naturalHeight |-> 2400]

\* the numbers of a stored crop
CropNumbers(c) == [x |-> c.x, y |-> c.y, width |-> c.width, height |-> c.height]

C16_ReenterRederivesCrop ==
  [][/\ ~cropMode /\ cropMode'
     /\ selectedFile # NoFile
     /\ editStates[selectedFile].crop # Null
     => /\ cropRect' # Null
        /\ \E g \in ImageGeometries :
             CropNumbers(CropValue(cropRect'[1], g, 0)) =
               CropNumbers(editStates[selectedFile].crop[1])]_vars

\* C17: every stored crop has all its coordinates within [0, 1].
C17_StoredCropNormalized ==
  \A f \in FileIds :
    editStates[f].crop # Null =>
      LET c == editStates[f].crop[1]
      IN /\ c.x >= 0 /\ c.x <= PX
         /\ c.y >= 0 /\ c.y <= PX
         /\ c.x + c.width >= 0 /\ c.x + c.width <= PX
         /\ c.y + c.height >= 0 /\ c.y + c.height <= PX

\* C18: the failure of a preview request that was not superseded leaves an
\* error the interface can read.
C18_FailureSurfaced ==
  [][\A id \in DOMAIN closures :
       /\ closures[id].phase = "inflight"
       /\ closures'[id].phase = "failed"
       => error' # Null]_vars

\* C19: once the latest request has failed no timer is pending, and no
\* request is sent before a qualifying change has made a newer one.
C19_NoAutomaticRetry ==
  /\ [](requestIdRef > 0 /\ closures[requestIdRef].phase = "failed" =>
         timer = NoTimer)
  /\ [][requestIdRef > 0 /\ closures[requestIdRef].phase = "failed" =>
          Sent' = Sent]_vars

\* the latest request failed and the image was cleared
C19_Witness ==
  /\ requestIdRef > 0
  /\ closures[requestIdRef].phase = "failed"
  /\ previewUrl = NullUrl
  /\ ~localLoading

\* C20: Cancel clears the crop rectangle and leaves crop mode; the edit
\* state of every file stays as it was and no preview request is started.
C20_CancelKeepsEditState ==
  [][CancelCrop =>
       /\ cropRect' = Null
       /\ ~cropMode'
       /\ editStates' = editStates
       /\ requestIdRef' = requestIdRef
       /\ closures' = closures
       /\ timer' = timer]_vars

\* in crop mode with a rectangle drawn over a file that has a stored crop:
\* Cancel has a rectangle to clear and an edit state to keep
C20_Witness ==
  /\ selectedFile # NoFile
  /\ cropMode
  /\ cropRect # Null
  /\ editStates[selectedFile].crop # Null

\* C21: a click on Apply without a crop rectangle, a selected file or a
\* rendered image changes neither the edit states, the crop rectangle, crop
\* mode nor the error, and starts no request.
C21_CommitWithoutGeometryIsNoOp ==
  [][\A g \in ImageGeometries :
       /\ ApplyCrop(g)
       /\ (cropRect = Null \/ selectedFile = NoFile \/ ~ImageRendered)
       => UNCHANGED <<editStates, cropRect, cropMode, error, requestIdRef,
                      closures, timer>>]_vars

\* Apply was clicked with a rectangle drawn while no image is rendered,
\* and the rectangle is still there
C21_Witness ==
  /\ applyClicks > 0
  /\ selectedFile # NoFile
  /\ cropMode
  /\ cropRect # Null
  /\ previewUrl = NullUrl
  /\ \A f \in FileIds : editStates[f].crop = Null

\* the cycle of compare modes
ModeCycle == [off |-> "split", split |-> "toggle", toggle |-> "off"]

\* C22: every change of the compare mode moves it to its successor in
\* off -> split -> toggle -> off.
C22_CompareModeCycles ==
  /\ [](compareMode \in DOMAIN ModeCycle)
  /\ [][compareMode' # compareMode =>
          compareMode' = ModeCycle[compareMode]]_vars

\* back at off after split and toggle for the same file
C22_Witness ==
  /\ selectedFile # NoFile
  /\ compareMode = "off"
  /\ beforeIssued >= 2

\* a quarter turn clockwise and counter-clockwise
Clockwise == (0 :> 90) @@ (90 :> 180) @@ (180 :> 270) @@ (270 :> 0)
CounterClockwise == (0 :> 270) @@ (90 :> 0) @@ (180 :> 90) @@ (270 :> 180)

\* C23: R and the rotate-right button turn the selected file a quarter
\* clockwise, Shift+R and the rotate-left button a quarter counter-clockwise;
\* rotation stays in {0, 90, 180, 270}, Shift+R undoes R and four presses of
\* R restore the rotation.
C23_RotationQuarterTurns ==
  /\ [](\A f \in FileIds :
          LET r == editStates[f].rotation IN
          /\ r \in DOMAIN Clockwise
          /\ KeyRotation(KeyRotation(r, FALSE), TRUE) = r
          /\ KeyRotation(KeyRotation(KeyRotation(KeyRotation(r, FALSE),
                                                 FALSE), FALSE), FALSE) = r)
  /\ [][/\ (PressR \/ handleRotateRight) =>
             /\ selectedEditState'.rotation = Clockwise[selectedEditState.rotation]
             /\ \A f \in FileIds \ {selectedFile} :
                  editStates'[f] = editStates[f]
        /\ (PressShiftR \/ handleRotateLeft) =>
             /\ selectedEditState'.rotation =
                  CounterClockwise[selectedEditState.rotation]
             /\ \A f \in FileIds \ {selectedFile} :
                  editStates'[f] = editStates[f]]_vars

\* the selected file stands at 270 after three requests: it was turned
\* there by Shift+R or rotate-left from 0, or by quarter turns clockwise
C23_Witness ==
  /\ selectedFile # NoFile
  /\ selectedEditState.rotation = 270
  /\ requestIdRef >= 3

\* the distance of two coordinates
Dist(a, b) == IF a > b THEN a - b ELSE b - a

\* the corner of rectangle r within 15 px of (x, y) in both directions, in
\* the order NW, NE, SW, SE
CornerAt(r, x, y) ==
  LET H == 15 * PX
      left == Dist(x, r.x) <= H
      right == Dist(x, r.x + r.width) <= H
      top == Dist(y, r.y) <= H
      bottom == Dist(y, r.y + r.height) <= H
  IN IF left /\ top THEN "resize-nw"
     ELSE IF right /\ top THEN "resize-ne"
     ELSE IF left /\ bottom THEN "resize-sw"
     ELSE IF right /\ bottom THEN "resize-se"
     ELSE "none"

\* C24: a press in crop mode on a non-empty rectangle starts resizing the
\* corner within 15 px (NW, NE, SW, SE in this order), else inside the
\* rectangle moving with the offset of the press from the origin, else
\* creating with the anchor at the press and a zero-size rectangle there; a
\* press outside crop mode leaves the crop state alone.
C24_PointerDownClassification ==
  [][\A p \in GesturePoints :
       LET x == p[1] * PX
           y == p[2] * PX
           r == cropRect[1]
           nonEmpty == cropRect # Null /\ r.width > 0 /\ r.height > 0
       IN MouseDown(x, y) =>
            IF ~cropMode
            THEN UNCHANGED <<cropRect, isDraggingCrop, cropStart,
                             cropDragMode, cropDragOffset, aspectRatio>>
            ELSE IF nonEmpty /\ CornerAt(r, x, y) # "none"
            THEN /\ cropDragMode' = CornerAt(r, x, y)
                 /\ isDraggingCrop'
                 /\ cropRect' = cropRect
            ELSE IF nonEmpty /\ x >= r.x /\ x <= r.x + r.width
                    /\ y >= r.y /\ y <= r.y + r.height
            THEN /\ cropDragMode' = "move"
                 /\ isDraggingCrop'
                 /\ cropDragOffset' = [x |-> x - r.x, y |-> y - r.y]
                 /\ cropRect' = cropRect
            ELSE /\ cropDragMode' = "create"
                 /\ isDraggingCrop'
                 /\ cropStart' = Some([x |-> x, y |-> y])
                 /\ cropRect' = Some([x |-> x, y |-> y, width |-> 0,
                                      height |-> 0])]_vars

\* the second press landed where the NW and the SE handle of a 20 px
\* rectangle overlap, and NW was taken
C24_Witness ==
  /\ cropMode
  /\ isDraggingCrop
  /\ cropDragMode = "resize-nw"
  /\ cropRect # Null
  /\ cropRect[1].width <= 30 * PX


\* the corner of r opposite the one a resize drags
OppositeCorner(r, mode) ==
  IF mode = "resize-se" THEN <<r.x, r.y>>
  ELSE IF mode = "resize-sw" THEN <<r.x + r.width, r.y>>
  ELSE IF mode = "resize-ne" THEN <<r.x, r.y + r.height>>
  ELSE <<r.x + r.width, r.y + r.height>>

\* a pointer-move of a resize gesture
ResizeMove ==
  /\ cropMode
  /\ isDraggingCrop
  /\ IsResize(cropDragMode)
  /\ cropRect # Null
  /\ GestureMove

\* C25: every pointer-move of a resize, with or without a locked ratio,
\* leaves the corner opposite the dragged one where it was.
C25_OppositeCornerFixed ==
  [][ResizeMove =>
       OppositeCorner(cropRect'[1], cropDragMode) =
         OppositeCorner(cropRect[1], cropDragMode)]_vars

\* the NW corner of (100,100)-(300,250) was dragged onto the SE corner: the
\* rectangle is 20 x 20 px and still ends at (300,250)
C25_Witness ==
  /\ cropMode
  /\ isDraggingCrop
  /\ cropDragMode = "resize-nw"
  /\ cropRect = Some([x |-> 280 * PX, y |-> 230 * PX, width |-> 20 * PX,
                      height |-> 20 * PX])


\* C26: after every pointer-move of a resize, for every aspect ratio, the
\* rectangle is at least 20 px wide and 20 px high.
C26_ResizeKeepsTwentyPx ==
  [][ResizeMove =>
       /\ cropRect'[1].width >= 20 * PX
       /\ cropRect'[1].height >= 20 * PX]_vars


\* a pointer-move of a move gesture
MoveMove ==
  /\ cropMode
  /\ isDraggingCrop
  /\ cropDragMode = "move"
  /\ cropRect # Null
  /\ GestureMove

\* C27: after every pointer-move of a move gesture the rectangle lies within
\* the viewport.
C27_MoveStaysInViewport ==
  [][MoveMove =>
       LET r == cropRect'[1] IN
       /\ 0 <= r.x
       /\ 0 <= r.y
       /\ r.x + r.width <= ContainerRect.width
       /\ r.y + r.height <= ContainerRect.height]_vars


\* the crop tool is idle: no gesture is going on
CropIdle == ~isDraggingCrop /\ cropDragMode = "null" /\ cropStart = Null

\* C28 as stated: pointer-up and pointer-leave return the crop tool to idle;
\* the rectangle of a create gesture smaller than 10 x 10 px is discarded,
\* every other rectangle is kept unchanged.
C28_Original ==
  [][MouseUp =>
       /\ CropIdle'
       /\ IF cropDragMode = "create" /\ cropRect # Null
             /\ (cropRect[1].width < 10 * PX \/ cropRect[1].height < 10 * PX)
          THEN cropRect' = Null
          ELSE cropRect' = cropRect]_vars

\* C28: pointer-up and pointer-leave return the crop tool to idle; the
\* rectangle of a create gesture that is at most 10 px wide or at most 10 px
\* high is discarded, every other rectangle is kept unchanged, and so is the
\* rectangle after a move or a resize.
C28_PointerUpEndsGesture ==
  [][MouseUp =>
       /\ CropIdle'
       /\ IF cropDragMode = "create" /\ cropRect # Null
             /\ (cropRect[1].width <= 10 * PX
                 \/ cropRect[1].height <= 10 * PX)
          THEN cropRect' = Null
          ELSE cropRect' = cropRect]_vars

\* two gestures were made and the second, a create, was discarded
C28_Witness ==
  /\ cropMode
  /\ CropIdle
  /\ cropRect = Null
  /\ cropDrags = 2


\* C29: each pointer-move of a create gesture sets the rectangle to the box
\* between the anchor and the pointer, its origin at the smaller coordinates
\* and its sizes the distances; with a locked ratio num:den the width is the
\* horizontal distance and the height is width * den / num.
C29_CreateSpansAnchorToPointer ==
  [][\A p \in GesturePoints :
       /\ cropMode
       /\ isDraggingCrop
       /\ cropDragMode = "create"
       /\ cropStart # Null
       /\ MouseMove(p[1] * PX, p[2] * PX)
       => LET a == cropStart[1]
              r == cropRect'[1]
          IN /\ cropRect' # Null
             /\ r.x = Min(a.x, p[1] * PX)
             /\ r.y = Min(a.y, p[2] * PX)
             /\ r.width = Dist(a.x, p[1] * PX)
             /\ IF aspectRatio = Null
                THEN r.height = Dist(a.y, p[2] * PX)
                ELSE r.height * aspectRatio[1].num =
                       r.width * aspectRatio[1].den]_vars

\* a rectangle is being drawn from its anchor to the upper left under a
\* locked ratio
C29_Witness ==
  /\ cropMode
  /\ isDraggingCrop
  /\ cropDragMode = "create"
  /\ aspectRatio # Null
  /\ cropStart # Null
  /\ cropRect # Null
  /\ cropRect[1].x < cropStart[1].x
  /\ cropRect[1].y < cropStart[1].y


\* C30: panning starts exactly on a press outside crop mode at a zoom level
\* above 1; while panning each pointer-move adds the step from the previous
\* pointer position to panOffset; pointer-up and pointer-leave stop it, and
\* without panning a pointer-move leaves panOffset alone.
C30_PanFollowsPointer ==
  [][/\ isPanning' /\ ~isPanning => ~cropMode /\ zoomLevel > ZOOM_ONE
     /\ \A p \in PanPoints :
          LET x == p[1] * PX
              y == p[2] * PX
          IN /\ MouseDown(x, y) =>
                  IF ~cropMode /\ zoomLevel > ZOOM_ONE
                  THEN isPanning' /\ lastPanPos' = [x |-> x, y |-> y]
                  ELSE isPanning' = isPanning
             /\ MouseMove(x, y) =>
                  /\ isPanning' = isPanning
                  /\ IF isPanning
                     THEN /\ panOffset'.x - panOffset.x = x - lastPanPos.x
                          /\ panOffset'.y - panOffset.y = y - lastPanPos.y
                          /\ lastPanPos' = [x |-> x, y |-> y]
                     ELSE panOffset' = panOffset
     /\ MouseUp => ~isPanning']_vars

\* the image was panned and the button released
C30_Witness ==
  /\ ~isPanning
  /\ ~cropMode
  /\ zoomLevel > ZOOM_ONE
  /\ panOffset # [x |-> 0, y |-> 0]


\* C31: a change of an edit field of the selected file issues, cancels and
\* invalidates no before request and leaves the cached before image alone,
\* and every before request carries the default edit state.
C31_BeforeIndependentOfEdits ==
  /\ [](\A i \in DOMAIN beforeClosures :
          beforeClosures[i].edits = DEFAULT_EDIT_STATE)
  /\ [][/\ editStates' # editStates
        /\ files' = files
        /\ selectedIndex' = selectedIndex
        => UNCHANGED <<beforeUrl, beforeClosures, liveBefore,
                       beforeIssued>>]_vars

\* the before image is cached and a second before request is in flight
\* while the selected file carries an edit
C31_Witness ==
  /\ selectedFile # NoFile
  /\ selectedEditState # DEFAULT_EDIT_STATE
  /\ beforeUrl # NullUrl
  /\ \E i \in DOMAIN beforeClosures :
       beforeClosures[i].phase = "inflight" /\ ~beforeClosures[i].cancelled


\* request id was cancelled by a cleanup or is not the latest one
Superseded(id) == closures[id].cancelled \/ id # requestIdRef

\* C32: the failure of a superseded preview request changes neither the
\* displayed after image nor the loading flag, and leaves the same state as
\* the success of that request would.
C32_SupersededFailureSilent ==
  [][\A id \in DOMAIN closures :
       PreviewFailure(id) /\ Superseded(id) =>
         /\ UNCHANGED <<previewUrl, localLoading, liveUrls, error, timer>>
         /\ PreviewSuccess(id)]_vars

\* an image is on display, a request was dropped and the latest request is
\* still in flight with the loading flag up
C32_Witness ==
  /\ previewUrl # NullUrl
  /\ localLoading
  /\ \E id \in DOMAIN closures : closures[id].phase = "discarded"
  /\ requestIdRef \in DOMAIN closures
  /\ closures[requestIdRef].phase = "inflight"


\* C33: at a zoom level of 1 or below the pan offset is {0, 0}.
C33_PanOnlyWhileZoomed ==
  zoomLevel <= ZOOM_ONE => panOffset = [x |-> 0, y |-> 0]


\* C34: the cached before image was rendered for the selected file.
C34_BeforeImageOfSelectedFile ==
  beforeUrl # NullUrl => beforeClosures[beforeUrl].file = selectedFile


\* the after image on display was rendered for file f
ShownFor(f) == previewUrl # NullUrl /\ closures[previewUrl].file = f

\* C35: with every request answered successfully, once a file is selected an
\* after image for it is eventually displayed, unless another file is
\* selected first.
C35_SelectedFileEventuallyShown ==
  \A f \in FileIds :
    (selectedFile = f) ~> (selectedFile # f \/ ShownFor(f))


\* C36: the after image on display was rendered for the selected file.
C36_AfterImageOfSelectedFile ==
  previewUrl # NullUrl =>
    /\ selectedFile # NoFile
    /\ closures[previewUrl].phase = "accepted"
    /\ closures[previewUrl].file = selectedFile

\* the image of the second file is on display and a response for the first
\* file was dropped
C36_Witness ==
  /\ previewUrl # NullUrl
  /\ selectedIndex = 1
  /\ \E id \in DOMAIN closures :
       /\ closures[id].phase = "discarded"
       /\ closures[id].file # selectedFile


\* C37: an object URL installed for display, in the after or in the before
\* slot, has not been revoked.
C37_DisplayedUrlNotRevoked ==
  /\ previewUrl # NullUrl => previewUrl \in liveUrls
  /\ beforeUrl # NullUrl => beforeUrl \in liveBefore

\* both slots show an image and each slot has replaced an earlier one
C37_Witness ==
  /\ previewUrl # NullUrl
  /\ beforeUrl # NullUrl
  /\ liveUrls = {previewUrl}
  /\ liveBefore = {beforeUrl}
  /\ \E i \in DOMAIN beforeClosures :
       i # beforeUrl /\ beforeClosures[i].phase = "accepted"
  /\ \E id \in DOMAIN closures :
       id # previewUrl /\ closures[id].phase = "accepted"

\* C38: once no save timer is pending, what save_edits last wrote for a file
\* equals the store's values of the fields changed through the sliders, the
\* rotate buttons and the rotation keys (every save call of the model
\* completes within its step, so none is in flight between steps)
SavedFields == {"exposure", "sharpeningRadius", "rotation"}
PersistedMatchesStore(f) ==
  IF persisted[f] = Null
  THEN \A k \in SavedFields : editStates[f][k] = DEFAULT_EDIT_STATE[k]
  ELSE \A k \in SavedFields : persisted[f][1][k] = editStates[f][k]
C38_PersistedEqualsStore ==
  saveTimeout = Null => \A f \in FileIds : PersistedMatchesStore(f)

\* C39: while creating, after every pointer-move the anchor (the pointer-down
\* point) is a corner of the current rectangle, whatever the pointer position
\* and the aspect-ratio setting.
AnchorIsCorner(a, r) ==
  /\ a.x \in {r.x, r.x + r.width}
  /\ a.y \in {r.y, r.y + r.height}
C39_AnchorStaysCorner ==
  [][\A p \in GesturePoints :
       /\ cropMode
       /\ isDraggingCrop
       /\ cropDragMode = "create"
       /\ cropStart # Null
       /\ MouseMove(p[1] * PX, p[2] * PX)
       => /\ cropRect' # Null
          /\ AnchorIsCorner(cropStart[1], cropRect'[1])]_vars

\* C40: whenever localLoading is true, a debounce timer is pending or the
\* request of the latest effect run is still in flight; the flag is never
\* left true with nothing pending.
LatestInFlight ==
  /\ requestIdRef \in DOMAIN closures
  /\ closures[requestIdRef].phase = "inflight"
C40_LoadingHasPendingWork ==
  localLoading => timer # NoTimer \/ LatestInFlight

====
